---- MODULE Spec2Model ----
(***************************************************************************)
(* State-machine model of kernel-build.py: the command dispatch of main,   *)
(* Kernel.build, Kernel.install, Kernel.run and the per-device sequence    *)
(* of BootDevice.install_kernel (umount, mount, install, grub.cfg,         *)
(* umount in finally), with Python's exception classes kept apart:         *)
(* Exception is caught by install_kernel, SystemExit and KeyboardInterrupt *)
(* are BaseExceptions and pass through "except Exception".                 *)
(***************************************************************************)
EXTENDS Integers, Sequences, FiniteSets, TLC

\* Largest number of entries of flash_devices explored.
MaxDevices == 2

\* Last tick of the wall clock explored.
MaxClock == 3

\* Clock ticks in one second, the resolution of both strftime formats.
TicksPerSecond == 2

\* Non-zero return codes an external command may exit with.
FailCodes == {1, 2}

\* argparse choices handled here (kernel-build.py:450).
Commands == {"configure", "build", "install"}

\* Outcomes of one subprocess.run call: exit status 0, a non-zero exit
\* status, an exception raised by subprocess.run itself (OSError), or a
\* KeyboardInterrupt delivered while the call is blocked.
Outcomes == {"ok", "fail", "raise", "int"}

VARIABLES
    command,    \* args.command
    nDev,       \* len(config.get_flash_devices())
    bzImage,    \* os.path.exists(linux_dir/arch/x86/boot/bzImage)
    _built,     \* Kernel._built
    reqBuilt,   \* what is_kernel_built() returned in main: "unset", "yes", "no"
    pc,         \* position of the single thread of control
    idx,        \* 1-based position in flashlist of the for loop in main
    exc,        \* exception in flight inside install_kernel
    exitCode,   \* process exit status, meaningful when pc = "exit"
    mounts,     \* devices mounted on boot_mountpoint, bottom to top
    grubDir,    \* dirname(grub_cfg_path) of the current device, "" before
    trace,      \* external commands invoked so far, in order
    logged,     \* error-level log records: <<device, tag>>
    volDirs,    \* directories find_grub_path found on the mounted volume
    dotConfig,  \* content of linux_dir/.config, "absent" when missing
    backups,    \* backup_config_dir: timestamp of .config.<dt> -> content
    latest,     \* content of backup_config_dir/.config.latest, or "absent"
    _kernel_version,  \* Kernel._kernel_version
    _build_datetime,  \* Kernel._build_datetime
    boot,       \* names of the files in boot_mountpoint
    written,    \* the copies this process has made into it, with the tick
    firstVersion,     \* what the first access of kernel_version returned
    lastVersion,      \* what the latest access of kernel_version returned
    redetected, \* detection has run again after it had run once
    clock,      \* wall-clock time, in ticks of 1/TicksPerSecond s
    relFile,    \* linux_dir/include/config/kernel.release
    vmlinux,    \* linux_dir/vmlinux and what the strings command gives
    copyFails   \* the artifacts whose shutil.copy2 raises OSError

\* The .config backups.
cfgVars == <<dotConfig, backups, latest>>

\* The Kernel object's cached properties and the boot directory.
artVars == <<_kernel_version, _build_datetime, boot, written, firstVersion,
             lastVersion, redetected>>

\* What the process reads from its environment.
envVars == <<clock, relFile, vmlinux, copyFails>>

vars == <<command, nDev, bzImage, _built, reqBuilt, pc, idx, exc, exitCode,
          mounts, grubDir, trace, logged, volDirs, cfgVars, artVars, envVars>>

NoExc == [kind |-> "none", code |-> 0]

\* One invoked external command: dev is the flashlist position (0 outside
\* install_kernel), res its outcome, rc its exit status (0 when none).
Ev(d, o, r, c) == [dev |-> d, op |-> o, res |-> r, rc |-> c]

\* Positions inside the try block of install_kernel (lines 412-440).
TryBody == {"ik_umount", "ik_mount", "ik_show1", "k_check", "k_modules",
            "k_genkernel", "k_rename", "k_grub", "ik_show2", "ik_grubpath",
            "ik_mkconfig"}

\* Positions inside install_kernel.
InInstallKernel == TryBody \cup {"ik_except", "ik_finally"}

\* The device install_kernel is running for, 0 when it is not running.
inDevice == IF pc \in InInstallKernel THEN idx ELSE 0

Pop(s) == SubSeq(s, 1, Len(s) - 1)

\* possible_paths of find_grub_path, relative to the mountpoint, in order.
possible_paths == <<"grub", "boot/grub", "grub2", "boot/grub2">>

GrubDirs == {possible_paths[i] : i \in 1..Len(possible_paths)}

\* find_grub_path with the list searched from its end.
find_grub_path_last(dirs) ==
    IF \E i \in 1..Len(possible_paths) : possible_paths[i] \in dirs
    THEN possible_paths[CHOOSE i \in 1..Len(possible_paths) :
                            /\ possible_paths[i] \in dirs
                            /\ \A j \in (i + 1)..Len(possible_paths) :
                                  possible_paths[j] \notin dirs]
    ELSE "grub"

\* find_grub_path: the directory of the grub.cfg it returns, given the set
\* of directories that exist on the mounted volume.
find_grub_path(dirs) ==
    IF \E i \in 1..Len(possible_paths) : possible_paths[i] \in dirs
    THEN possible_paths[CHOOSE i \in 1..Len(possible_paths) :
                            /\ possible_paths[i] \in dirs
                            /\ \A j \in 1..(i - 1) : possible_paths[j] \notin dirs]
    ELSE "grub"

\* Kernel.is_kernel_built
is_kernel_built == _built \/ bzImage

(***************************************************************************)
(* Strings are sequences of tokens, so that formatting and stripping are   *)
(* computed: "" is <<>>, a file name is the sequence of its parts.         *)
(***************************************************************************)
\* Python's None, where a string is expected.
None == <<"<None>">>

\* "not s" for a string or None.
Falsy(s) == s = None \/ s = <<>>

unknown == <<"unknown">>

Whitespace == {" ", "\n"}

RECURSIVE lstrip(_)
lstrip(s) ==
    IF s # <<>> /\ Head(s) \in Whitespace THEN lstrip(Tail(s)) ELSE s

RECURSIVE rstrip(_)
rstrip(s) ==
    IF s # <<>> /\ s[Len(s)] \in Whitespace
    THEN rstrip(SubSeq(s, 1, Len(s) - 1))
    ELSE s

\* str.strip()
strip(s) == rstrip(lstrip(s))

\* The seconds a formatted timestamp is made of, as text.
SecondText == <<"00", "01", "02", "03", "04", "05", "06", "07">>

\* datetime.now().strftime(...) at clock tick t: both formats (lines 201
\* and 236) render the time to the second and drop the rest.
strftime(t) == <<SecondText[(t \div TicksPerSecond) + 1]>>

\* Contents of .config.
ConfigContents == {"cfgA", "cfgB"}

\* An empty backup directory.
NoBackups == [n \in {} |-> "absent"]

\* The contents of kernel.release explored.
ReleaseContents == {<<"\n">>, <<"6.6.1", "\n">>, <<"6.6.2", "\n">>}

\* What kernel.release may be: missing, unreadable (IOError), or a file
\* with the given content.
RelAbsent == [exists |-> FALSE, readable |-> FALSE, content |-> <<>>]

RelFile(c) == [exists |-> TRUE, readable |-> TRUE, content |-> c]

RelFiles ==
    {RelAbsent, [exists |-> TRUE, readable |-> FALSE, content |-> <<>>]}
        \cup {RelFile(c) : c \in ReleaseContents}

\* What vmlinux may be: missing, or present with the exit status and the
\* words of the first line of the output of the command of line 176.
VmAbsent == [exists |-> FALSE, rc |-> 0, words |-> <<>>]

VmFiles ==
    {VmAbsent,
     [exists |-> TRUE, rc |-> 1, words |-> <<>>],
     [exists |-> TRUE, rc |-> 0, words |-> <<"Linux", "version">>],
     [exists |-> TRUE, rc |-> 0, words |-> <<"Linux", "version", "6.6.3", "(gcc)">>]}

\* kernel_version, lines 164-195: what detection yields.
detect_version ==
    IF relFile.exists
    THEN IF relFile.readable THEN strip(relFile.content) ELSE unknown
    ELSE IF vmlinux.exists
         THEN IF vmlinux.rc = 0 /\ vmlinux.words # <<>>
              THEN IF Len(vmlinux.words) >= 3
                   THEN <<vmlinux.words[3]>>
                   ELSE unknown
              ELSE unknown
         ELSE unknown

\* The kernel_version property (lines 161-196): what an access returns,
\* which is also what _kernel_version holds after it.
kernel_version ==
    IF Falsy(_kernel_version) THEN detect_version ELSE _kernel_version

\* build_datetime without its cache: the time of every access.
build_datetime_now == strftime(clock)

\* The build_datetime property (lines 198-202): what an access returns,
\* which is also what _build_datetime holds after it.
build_datetime ==
    IF Falsy(_build_datetime) THEN strftime(clock) ELSE _build_datetime

\* The artifact names of rename_kernel_files.
SystemMap == <<"System", ".map">>

Vmlinuz == <<"vmlinuz">>

\* Line 331: f"initramfs-{kv}.img"
irfs_name(kv) == <<"initramfs", "-">> \o kv \o <<".img">>

\* Line 324: f"{f}-{kv}-{dt}"
versioned(f, kv, dt) == f \o <<"-">> \o kv \o <<"-">> \o dt

\* The initramfs name with the timestamp put after the extension.
irfs_dst_appended(kv, dt) == irfs_name(kv) \o <<"-">> \o dt

\* Line 334: f"initramfs-{kv}-{dt}.img"
irfs_dst(kv, dt) == <<"initramfs", "-">> \o kv \o <<"-">> \o dt \o <<".img">>

\* The copies rename_kernel_files makes, as <<artifact, source, target>>,
\* for version kv and timestamp dt (lines 321-334).
Copies(kv, dt) ==
    {<<"System.map", SystemMap, versioned(SystemMap, kv, dt)>>,
     <<"vmlinuz", Vmlinuz, versioned(Vmlinuz, kv, dt)>>,
     <<"initramfs", irfs_name(kv), irfs_dst(kv, dt)>>}

Artifacts == {"System.map", "vmlinuz", "initramfs"}

\* An access of kernel_version: the cache, and the record of what the
\* accesses returned and of whether detection ran a second time.
access_kernel_version ==
    /\ _kernel_version' = kernel_version
    /\ lastVersion' = kernel_version
    /\ firstVersion' = IF firstVersion = None THEN kernel_version
                       ELSE firstVersion
    /\ redetected' = (redetected \/
                        (Falsy(_kernel_version) /\ firstVersion # None))

\* Kernel.rename_kernel_files (lines 311-339): both properties are read,
\* then every artifact found in the boot directory is copied to its
\* versioned name; a copy that raises OSError is logged and skipped. The
\* directory itself exists since Kernel.__init__ (line 134).
rename_kernel_files ==
    /\ _build_datetime' = build_datetime
    /\ access_kernel_version
    /\ LET done == {c \in Copies(kernel_version, build_datetime) :
                        c[2] \in boot /\ c[1] \notin copyFails}
       IN  /\ boot' = boot \cup {c[3] : c \in done}
           /\ written' = written \cup
                 {[art |-> c[1], name |-> c[3], at |-> clock] : c \in done}

\* The artifacts make install and genkernel leave in the boot directory
\* for version 6.6.1 (lines 320 and 331-332).
BootSources == {SystemMap, Vmlinuz, irfs_name(<<"6.6.1">>)}

\* Boot directories holding a part of the artifacts, and copies that fail,
\* are followed through the sessions that install to one device; the
\* other sessions find every artifact and copy it.
OneDeviceInstall(c, n) == c = "install" /\ n = 1

Init ==
    /\ command \in Commands
    /\ nDev \in 0..MaxDevices
    /\ bzImage \in BOOLEAN
    /\ _built = FALSE
    /\ reqBuilt = "unset"
    /\ pc = "main"
    /\ idx = 1
    /\ exc = NoExc
    /\ exitCode = 0
    /\ mounts = <<>>
    /\ grubDir = ""
    /\ trace = <<>>
    /\ logged = {}
    /\ volDirs = {}
    /\ dotConfig \in IF command = "install" THEN {"cfgA"}
                     ELSE {"absent"} \cup ConfigContents
    /\ clock \in IF command = "configure" THEN 0..MaxClock ELSE {0}
    /\ backups \in IF command = "configure"
                   THEN {NoBackups} \cup
                        {(strftime(t) :> c) :
                            t \in 0..MaxClock, c \in ConfigContents}
                   ELSE {NoBackups}
    /\ latest = "absent"
    /\ _kernel_version = None
    /\ _build_datetime = None
    /\ boot \in IF OneDeviceInstall(command, nDev)
                THEN SUBSET BootSources
                ELSE {BootSources}
    /\ written = {}
    /\ firstVersion = None
    /\ lastVersion = None
    /\ redetected = FALSE
    /\ relFile = RelFile(<<"6.6.1", "\n">>)
    /\ vmlinux = VmAbsent
    /\ copyFails \in IF OneDeviceInstall(command, nDev)
                     THEN SUBSET Artifacts
                     ELSE {{}}

\* main without its "except KeyboardInterrupt" clause: an interrupt ends
\* the process like any other failure.
MainExitAsFailure(kind, code, logs) ==
    /\ pc' = "exit"
    /\ exc' = NoExc
    /\ exitCode' = IF kind = "SystemExit" THEN code ELSE 1
    /\ logged' = logged \cup logs \cup
                 (IF kind = "SystemExit" THEN {} ELSE {<<0, "critical">>})

\* An exception reaching main (lines 484-489) or leaving it: SystemExit is
\* caught by neither handler and ends the process with its code,
\* KeyboardInterrupt is logged and becomes 130, Exception becomes 1.
MainExit(kind, code, logs) ==
    /\ pc' = "exit"
    /\ exc' = NoExc
    /\ exitCode' = CASE kind = "SystemExit" -> code
                     [] kind = "KeyboardInterrupt" -> 130
                     [] OTHER -> 1
    /\ logged' = logged \cup logs \cup
                 (CASE kind = "KeyboardInterrupt" -> {<<0, "interrupted">>}
                    [] kind = "Exception" -> {<<0, "critical">>}
                    [] OTHER -> {})

\* Throw as it would be were the umount of install_kernel not in a finally
\* clause: only an Exception is handled there, anything else leaves at once.
ThrowPastFinally(kind, code, logs) ==
    IF pc \in TryBody /\ kind = "Exception"
    THEN /\ exc' = [kind |-> kind, code |-> code]
         /\ pc' = "ik_except"
         /\ logged' = logged \cup logs
         /\ UNCHANGED exitCode
    ELSE MainExit(kind, code, logs)

\* An exception raised at the current position: inside the try block of
\* install_kernel an Exception goes to the except clause (line 441), a
\* SystemExit or KeyboardInterrupt goes straight to finally (line 443);
\* outside install_kernel it reaches main.
Throw(kind, code, logs) ==
    IF pc \in TryBody
    THEN /\ exc' = [kind |-> kind, code |-> code]
         /\ pc' = IF kind = "Exception" THEN "ik_except" ELSE "ik_finally"
         /\ logged' = logged \cup logs
         /\ UNCHANGED exitCode
    ELSE MainExit(kind, code, logs)

\* Kernel.run as it would be with check=False: a failed command is logged
\* and the caller goes on.
runUnchecked(op, next) ==
    \E res \in Outcomes, c \in FailCodes \cup {0} :
        /\ (res = "fail") <=> (c # 0)
        /\ trace' = Append(trace, Ev(inDevice, op, res, c))
        /\ IF res \in {"ok", "fail"}
           THEN /\ pc' = next
                /\ UNCHANGED <<exc, exitCode, logged>>
           ELSE IF res = "raise"
                THEN Throw("Exception", 0, {<<inDevice, "cmd_exec_failed">>})
                ELSE Throw("KeyboardInterrupt", 0, {})

\* Kernel.run with check=True (lines 204-229): a non-zero exit status ends
\* the process with that status through sys.exit, an exception of
\* subprocess.run ends it with 1.
run(op, next) ==
    \E res \in Outcomes, c \in FailCodes \cup {0} :
        /\ (res = "fail") <=> (c # 0)
        /\ trace' = Append(trace, Ev(inDevice, op, res, c))
        /\ CASE res = "ok" ->
                  /\ pc' = next
                  /\ UNCHANGED <<exc, exitCode, logged>>
             [] res = "fail" ->
                  Throw("SystemExit", c, {<<inDevice, "cmd_failed">>})
             [] res = "raise" ->
                  Throw("SystemExit", 1, {<<inDevice, "cmd_exec_failed">>})
             [] OTHER ->
                  Throw("KeyboardInterrupt", 0, {})

\* main without the is_kernel_built() test of lines 468-470.
MainNoGate ==
    /\ pc = "main"
    /\ IF command # "install"
       THEN /\ pc' = IF command = "build" THEN "b_make" ELSE "c_backup"
            /\ UNCHANGED reqBuilt
       ELSE /\ reqBuilt' = IF is_kernel_built THEN "yes" ELSE "no"
            /\ pc' = "loop"
    /\ UNCHANGED <<command, nDev, bzImage, _built, idx, exc, exitCode, mounts,
                   grubDir, trace, logged>>
    /\ UNCHANGED <<volDirs, cfgVars, artVars, envVars>>

\* main, lines 461-470: dispatch on the command; install is refused with
\* status 1 when is_kernel_built() is false.
Main ==
    /\ pc = "main"
    /\ IF command # "install"
       THEN /\ pc' = IF command = "build" THEN "b_make" ELSE "c_backup"
            /\ UNCHANGED <<reqBuilt, exitCode, logged>>
       ELSE IF is_kernel_built
            THEN /\ reqBuilt' = "yes"
                 /\ pc' = "loop"
                 /\ UNCHANGED <<exitCode, logged>>
            ELSE /\ reqBuilt' = "no"
                 /\ pc' = "exit"
                 /\ exitCode' = 1
                 /\ logged' = logged \cup {<<0, "not_built">>}
    /\ UNCHANGED <<command, nDev, bzImage, _built, idx, exc, mounts, grubDir,
                   trace>>
    /\ UNCHANGED <<volDirs, cfgVars, artVars, envVars>>

\* configure without the backup_config() call of line 246.
ConfigBackupSkipped ==
    /\ pc = "c_backup"
    /\ pc' = "c_nconfig"
    /\ UNCHANGED <<command, nDev, bzImage, _built, reqBuilt, idx, exc,
                   exitCode, mounts, grubDir, trace, logged>>
    /\ UNCHANGED <<volDirs, cfgVars, artVars, envVars>>

\* Kernel.backup_config (lines 231-243), called at line 246: an existing
\* .config is copied to .config.<dt>, dt being the time to the second; a
\* copy that raises OSError is logged and nothing else happens.
ConfigBackup ==
    /\ pc = "c_backup"
    /\ IF dotConfig = "absent"
       THEN /\ trace' = Append(trace, Ev(0, "backup_config", "skip", 0))
            /\ pc' = "c_nconfig"
            /\ UNCHANGED <<exc, exitCode, logged, backups>>
       ELSE \E res \in {"ok", "fail", "int"} :
              /\ trace' = Append(trace, Ev(0, "backup_config", res, 0))
              /\ backups' = IF res = "ok"
                            THEN [n \in DOMAIN backups \cup {strftime(clock)} |->
                                     IF n = strftime(clock) THEN dotConfig
                                     ELSE backups[n]]
                            ELSE backups
              /\ IF res = "int"
                 THEN Throw("KeyboardInterrupt", 0, {})
                 ELSE /\ pc' = "c_nconfig"
                      /\ logged' = logged \cup
                            (IF res = "fail" THEN {<<0, "backup_error">>} ELSE {})
                      /\ UNCHANGED <<exc, exitCode>>
    /\ UNCHANGED <<command, nDev, bzImage, _built, reqBuilt, idx, mounts,
                   grubDir, volDirs, dotConfig, latest, artVars, envVars>>

\* Kernel.configure, lines 249-262: make nconfig with check=True inside
\* "try ... except Exception": a non-zero status raises
\* CalledProcessError before line 257 is reached, and the except clause
\* turns it, like a failure to start the command, into sys.exit(1). The
\* user may have saved another .config when the command succeeds.
ConfigNconfig ==
    /\ pc = "c_nconfig"
    /\ \E res \in Outcomes, c \in FailCodes \cup {0} :
          /\ (res = "fail") <=> (c # 0)
          /\ trace' = Append(trace, Ev(0, "nconfig", res, c))
          /\ CASE res = "ok" ->
                    /\ pc' = "c_latest"
                    /\ dotConfig' \in {dotConfig} \cup ConfigContents
                    /\ UNCHANGED <<exc, exitCode, logged>>
               [] res \in {"fail", "raise"} ->
                    /\ Throw("SystemExit", 1, {<<0, "nconfig_error">>})
                    /\ UNCHANGED dotConfig
               [] OTHER ->
                    /\ Throw("KeyboardInterrupt", 0, {})
                    /\ UNCHANGED dotConfig
    /\ UNCHANGED <<command, nDev, bzImage, _built, reqBuilt, idx, mounts,
                   grubDir, volDirs, backups, latest, artVars, envVars>>

\* Kernel.configure, lines 264-271, and the return of main: the .config
\* is copied to .config.latest; a failed copy is logged.
ConfigLatest ==
    /\ pc = "c_latest"
    /\ IF dotConfig = "absent"
       THEN /\ pc' = "exit"
            /\ exitCode' = 0
            /\ UNCHANGED <<exc, logged, latest, trace>>
       ELSE \E res \in {"ok", "fail", "int"} :
              /\ trace' = Append(trace, Ev(0, "copy_latest", res, 0))
              /\ latest' = IF res = "ok" THEN dotConfig ELSE latest
              /\ IF res = "int"
                 THEN Throw("KeyboardInterrupt", 0, {})
                 ELSE /\ pc' = "exit"
                      /\ exitCode' = 0
                      /\ logged' = logged \cup
                            (IF res = "fail" THEN {<<0, "latest_error">>} ELSE {})
                      /\ UNCHANGED exc
    /\ UNCHANGED <<command, nDev, bzImage, _built, reqBuilt, idx, mounts,
                   grubDir, volDirs, dotConfig, backups, artVars, envVars>>

\* Kernel.build, line 276: the compile command, run with check=True.
Build ==
    /\ pc = "b_make"
    /\ run("make_bzImage", "b_done")
    /\ UNCHANGED <<command, nDev, bzImage, _built, reqBuilt, idx, mounts,
                   grubDir>>
    /\ UNCHANGED <<volDirs, cfgVars, artVars, envVars>>

\* Kernel.build, lines 277-278, and the return of main: status 0.
BuildDone ==
    /\ pc = "b_done"
    /\ _built' = TRUE
    /\ pc' = "exit"
    /\ exitCode' = 0
    /\ UNCHANGED <<command, nDev, bzImage, reqBuilt, idx, exc, mounts,
                   grubDir, trace, logged>>
    /\ UNCHANGED <<volDirs, cfgVars, artVars, envVars>>

\* main, lines 472-480: the next entry of flashlist, or the end of main.
Loop ==
    /\ pc = "loop"
    /\ IF idx <= nDev
       THEN /\ pc' = "ik_umount"
            /\ grubDir' = ""
            /\ UNCHANGED exitCode
       ELSE /\ pc' = "exit"
            /\ exitCode' = 0
            /\ UNCHANGED grubDir
    /\ UNCHANGED <<command, nDev, bzImage, _built, reqBuilt, idx, exc, mounts,
                   trace, logged>>
    /\ UNCHANGED <<volDirs, cfgVars, artVars, envVars>>

\* Outcomes of BootDevice.umount: "fail" is every way the command does not
\* detach anything and umount() still returns (a non-zero status, or a
\* failure to start the command, swallowed at line 379). The command cannot
\* exit with status 0 when nothing is mounted on the mountpoint.
UmountOutcomes ==
    IF mounts = <<>> THEN {"fail", "int"} ELSE {"ok", "fail", "int"}

\* BootDevice.umount (lines 370-380): check=False, so a non-zero status is
\* logged at most, and "except Exception" swallows a failure to start the
\* command; only a KeyboardInterrupt leaves it. A successful umount
\* detaches the topmost mount of the mountpoint; an interrupted one may or
\* may not have done so.
umount(res) ==
    /\ trace' = Append(trace, Ev(idx, "umount", res, 0))
    /\ mounts' \in CASE res = "ok" -> {Pop(mounts)}
                     [] res = "int" /\ mounts # <<>> -> {mounts, Pop(mounts)}
                     [] OTHER -> {mounts}

\* What BootDevice.umount logs at error level (lines 377-380).
UmountLogs(res) ==
    IF res = "fail" /\ mounts # <<>> THEN {<<idx, "umount_error">>} ELSE {}

\* install_kernel without the umount of line 412.
IkUmountSkipped ==
    /\ pc = "ik_umount"
    /\ pc' = "ik_mount"
    /\ UNCHANGED <<command, nDev, bzImage, _built, reqBuilt, idx, exc,
                   exitCode, mounts, grubDir, trace, logged>>
    /\ UNCHANGED <<volDirs, cfgVars, artVars, envVars>>

\* install_kernel, line 412: the umount before the mount.
IkUmount ==
    /\ pc = "ik_umount"
    /\ \E res \in UmountOutcomes :
          /\ umount(res)
          /\ IF res = "int"
             THEN Throw("KeyboardInterrupt", 0, {})
             ELSE /\ pc' = "ik_mount"
                  /\ logged' = logged \cup UmountLogs(res)
                  /\ UNCHANGED <<exc, exitCode>>
    /\ UNCHANGED <<command, nDev, bzImage, _built, reqBuilt, idx, grubDir>>
    /\ UNCHANGED <<volDirs, cfgVars, artVars, envVars>>

\* BootDevice.mount (lines 357-368), called at line 413: check=True turns
\* a non-zero status into CalledProcessError, which is logged and raised
\* again; any other exception of subprocess.run passes unlogged.
IkMount ==
    /\ pc = "ik_mount"
    /\ \E res \in Outcomes :
          /\ trace' = Append(trace, Ev(idx, "mount", res, 0))
          /\ mounts' \in CASE res = "ok" -> {Append(mounts, idx)}
                           [] res = "int" -> {mounts, Append(mounts, idx)}
                           [] OTHER -> {mounts}
          /\ CASE res = "ok" ->
                    /\ pc' = "ik_show1"
                    /\ UNCHANGED <<exc, exitCode, logged>>
               [] res = "fail" ->
                    Throw("Exception", 0, {<<idx, "mount_error">>})
               [] res = "raise" ->
                    Throw("Exception", 0, {})
               [] OTHER ->
                    Throw("KeyboardInterrupt", 0, {})
    /\ UNCHANGED <<command, nDev, bzImage, _built, reqBuilt, idx, grubDir>>
    /\ UNCHANGED <<volDirs, cfgVars, artVars, envVars>>

\* BootDevice.show_boot (lines 382-391), called at lines 415 and 421: the
\* listing is only logged, its status is not looked at and an exception
\* of the command is swallowed, so show_boot returns ("ok") unless it is
\* interrupted.
IkShowBoot ==
    /\ pc \in {"ik_show1", "ik_show2"}
    /\ \E res \in {"ok", "int"} :
          /\ trace' = Append(trace, Ev(idx, "ls", res, 0))
          /\ IF res = "int"
             THEN Throw("KeyboardInterrupt", 0, {})
             ELSE /\ pc' = IF pc = "ik_show1" THEN "k_check" ELSE "ik_grubpath"
                  /\ UNCHANGED <<exc, exitCode, logged>>
    /\ UNCHANGED <<command, nDev, bzImage, _built, reqBuilt, idx, mounts,
                   grubDir>>
    /\ UNCHANGED <<volDirs, cfgVars, artVars, envVars>>

\* Kernel.install with an already-installed test: the install steps are
\* skipped once they have succeeded for an earlier device.
KInstallCheckOnce ==
    /\ pc = "k_check"
    /\ IF ~is_kernel_built
       THEN Throw("SystemExit", 1, {<<idx, "not_built">>})
       ELSE /\ pc' = IF \E i \in 1..Len(trace) :
                            /\ trace[i].op = "grub_mkconfig_boot"
                            /\ trace[i].res = "ok"
                     THEN "ik_show2" ELSE "k_modules"
            /\ UNCHANGED <<exc, exitCode, logged>>
    /\ UNCHANGED <<command, nDev, bzImage, _built, reqBuilt, idx, mounts,
                   grubDir, trace>>
    /\ UNCHANGED <<volDirs, cfgVars, artVars, envVars>>

\* Kernel.install, lines 295-297: sys.exit(1) when no kernel is built.
KInstallCheck ==
    /\ pc = "k_check"
    /\ IF is_kernel_built
       THEN /\ pc' = "k_modules"
            /\ UNCHANGED <<exc, exitCode, logged>>
       ELSE Throw("SystemExit", 1, {<<idx, "not_built">>})
    /\ UNCHANGED <<command, nDev, bzImage, _built, reqBuilt, idx, mounts,
                   grubDir, trace>>
    /\ UNCHANGED <<volDirs, cfgVars, artVars, envVars>>

\* Kernel.install with the initramfs generation left out after the
\* modules are installed.
KModulesInstallThenRename ==
    /\ pc = "k_modules"
    /\ run("modules_install", "k_rename")
    /\ UNCHANGED <<command, nDev, bzImage, _built, reqBuilt, idx, mounts,
                   grubDir>>
    /\ UNCHANGED <<volDirs, cfgVars, artVars, envVars>>

\* Kernel.install, line 300: make modules_install install.
KModulesInstall ==
    /\ pc = "k_modules"
    /\ run("modules_install", "k_genkernel")
    /\ UNCHANGED <<command, nDev, bzImage, _built, reqBuilt, idx, mounts,
                   grubDir>>
    /\ UNCHANGED <<volDirs, cfgVars, artVars, envVars>>

\* Kernel.install, lines 303-304: genkernel ... initramfs.
KGenkernel ==
    /\ pc = "k_genkernel"
    /\ run("genkernel", "k_rename")
    /\ UNCHANGED <<command, nDev, bzImage, _built, reqBuilt, idx, mounts,
                   grubDir>>
    /\ UNCHANGED <<volDirs, cfgVars, artVars, envVars>>

\* rename_kernel_files without the try around its copies: a copy that
\* fails raises into install_kernel.
KRenameRaises ==
    /\ pc = "k_rename"
    /\ \E res \in {"ok", "int"} :
          /\ trace' = Append(trace, Ev(idx, "rename", res, 0))
          /\ IF res = "int"
             THEN Throw("KeyboardInterrupt", 0, {})
             ELSE IF \E c \in Copies(kernel_version, build_datetime) :
                         c[2] \in boot /\ c[1] \in copyFails
                  THEN Throw("Exception", 0, {})
                  ELSE /\ pc' = "k_grub"
                       /\ UNCHANGED <<exc, exitCode, logged>>
          /\ IF res = "int" THEN UNCHANGED artVars ELSE rename_kernel_files
    /\ UNCHANGED <<command, nDev, bzImage, _built, reqBuilt, idx, mounts,
                   grubDir>>
    /\ UNCHANGED <<volDirs, cfgVars, envVars>>

\* Kernel.install, line 307: rename_kernel_files copies inside the
\* process; a failed copy is caught and logged (lines 326-339).
KRename ==
    /\ pc = "k_rename"
    /\ \E res \in {"ok", "int"} :
          /\ trace' = Append(trace, Ev(idx, "rename", res, 0))
          /\ IF res = "int"
             THEN Throw("KeyboardInterrupt", 0, {})
             ELSE /\ pc' = "k_grub"
                  /\ UNCHANGED <<exc, exitCode, logged>>
          /\ IF res = "int" THEN UNCHANGED artVars ELSE rename_kernel_files
    /\ UNCHANGED <<command, nDev, bzImage, _built, reqBuilt, idx, mounts,
                   grubDir>>
    /\ UNCHANGED <<volDirs, cfgVars, envVars>>

\* Kernel.install, line 308: grub-mkconfig -o /boot/grub/grub.cfg.
KGrubMkconfig ==
    /\ pc = "k_grub"
    /\ run("grub_mkconfig_boot", "ik_show2")
    /\ UNCHANGED <<command, nDev, bzImage, _built, reqBuilt, idx, mounts,
                   grubDir>>
    /\ UNCHANGED <<volDirs, cfgVars, artVars, envVars>>

\* install_kernel, lines 424-429: the grub directory of the mounted volume
\* is looked up, and created when missing; os.makedirs may raise OSError.
IkGrubPath ==
    /\ pc = "ik_grubpath"
    /\ \E dirs \in SUBSET GrubDirs, res \in {"ok", "raise"} :
          /\ volDirs' = dirs
          /\ grubDir' = find_grub_path(dirs)
          /\ IF find_grub_path(dirs) \in dirs
             THEN /\ res = "ok"
                  /\ trace' = trace
                  /\ pc' = "ik_mkconfig"
                  /\ UNCHANGED <<exc, exitCode, logged>>
             ELSE /\ trace' = Append(trace, Ev(idx, "makedirs", res, 0))
                  /\ IF res = "ok"
                     THEN /\ pc' = "ik_mkconfig"
                          /\ UNCHANGED <<exc, exitCode, logged>>
                     ELSE Throw("Exception", 0, {})
    /\ UNCHANGED <<command, nDev, bzImage, _built, reqBuilt, idx, mounts>>
    /\ UNCHANGED <<cfgVars, artVars, envVars>>

\* install_kernel, lines 431-440: grub-mkconfig on the device, unchecked:
\* a non-zero status is logged and nothing is raised.
IkGrubMkconfig ==
    /\ pc = "ik_mkconfig"
    /\ \E res \in Outcomes, c \in FailCodes \cup {0} :
          /\ (res = "fail") <=> (c # 0)
          /\ trace' = Append(trace, Ev(idx, "grub_mkconfig_dev", res, c))
          /\ CASE res = "ok" ->
                    /\ pc' = "ik_finally"
                    /\ UNCHANGED <<exc, exitCode, logged>>
               [] res = "fail" ->
                    /\ pc' = "ik_finally"
                    /\ logged' = logged \cup {<<idx, "grub_error">>}
                    /\ UNCHANGED <<exc, exitCode>>
               [] res = "raise" ->
                    Throw("Exception", 0, {})
               [] OTHER ->
                    Throw("KeyboardInterrupt", 0, {})
    /\ UNCHANGED <<command, nDev, bzImage, _built, reqBuilt, idx, mounts,
                   grubDir>>
    /\ UNCHANGED <<volDirs, cfgVars, artVars, envVars>>

\* The except clause of install_kernel with a "raise" at its end.
IkExceptReraises ==
    /\ pc = "ik_except"
    /\ logged' = logged \cup {<<idx, "install_error">>}
    /\ pc' = "ik_finally"
    /\ UNCHANGED <<command, nDev, bzImage, _built, reqBuilt, idx, exc,
                   exitCode, mounts, grubDir, trace>>
    /\ UNCHANGED <<volDirs, cfgVars, artVars, envVars>>

\* install_kernel, lines 441-442: an Exception is logged and dropped.
IkExcept ==
    /\ pc = "ik_except"
    /\ logged' = logged \cup {<<idx, "install_error">>}
    /\ exc' = NoExc
    /\ pc' = "ik_finally"
    /\ UNCHANGED <<command, nDev, bzImage, _built, reqBuilt, idx, exitCode,
                   mounts, grubDir, trace>>
    /\ UNCHANGED <<volDirs, cfgVars, artVars, envVars>>

\* install_kernel with an empty finally clause: no umount after the work.
IkFinallyNoUmount ==
    /\ pc = "ik_finally"
    /\ IF exc.kind # "none"
       THEN /\ MainExit(exc.kind, exc.code, {})
            /\ UNCHANGED idx
       ELSE /\ pc' = "loop"
            /\ idx' = idx + 1
            /\ UNCHANGED <<exc, exitCode, logged>>
    /\ UNCHANGED <<command, nDev, bzImage, _built, reqBuilt, mounts, trace>>
    /\ grubDir' = ""
    /\ volDirs' = {}
    /\ UNCHANGED <<cfgVars, artVars, envVars>>

\* install_kernel, lines 443-444: umount in finally; then a SystemExit or
\* KeyboardInterrupt still in flight goes on to main, and otherwise
\* install_kernel returns to the for loop. A KeyboardInterrupt raised in
\* this umount replaces the exception in flight. The locals grub_cfg_path
\* and grub_dir end with the call.
IkFinally ==
    /\ pc = "ik_finally"
    /\ \E res \in UmountOutcomes :
          /\ umount(res)
          /\ IF res = "int"
             THEN /\ MainExit("KeyboardInterrupt", 0, {})
                  /\ UNCHANGED idx
             ELSE IF exc.kind # "none"
                  THEN /\ MainExit(exc.kind, exc.code, UmountLogs(res))
                       /\ UNCHANGED idx
                  ELSE /\ pc' = "loop"
                       /\ idx' = idx + 1
                       /\ logged' = logged \cup UmountLogs(res)
                       /\ UNCHANGED <<exc, exitCode>>
    /\ UNCHANGED <<command, nDev, bzImage, _built, reqBuilt>>
    /\ grubDir' = ""
    /\ volDirs' = {}
    /\ UNCHANGED <<cfgVars, artVars, envVars>>

\* The file tested by is_kernel_built (line 287) belongs to the file
\* system, not to the process: it can disappear while an install runs.
BzImageRemoved ==
    /\ command = "install"
    /\ pc \in {"loop"} \cup InInstallKernel
    /\ bzImage
    /\ bzImage' = FALSE
    /\ UNCHANGED <<command, nDev, _built, reqBuilt, pc, idx, exc, exitCode,
                   mounts, grubDir, trace, logged>>
    /\ UNCHANGED <<volDirs, cfgVars, artVars, envVars>>

Next ==
    \/ Main
    \/ ConfigBackup
    \/ ConfigNconfig
    \/ ConfigLatest
    \/ Build
    \/ BuildDone
    \/ Loop
    \/ IkUmount
    \/ IkMount
    \/ IkShowBoot
    \/ KInstallCheck
    \/ KModulesInstall
    \/ KGenkernel
    \/ KRename
    \/ KGrubMkconfig
    \/ IkGrubPath
    \/ IkGrubMkconfig
    \/ IkExcept
    \/ IkFinally
    \/ BzImageRemoved

Spec == Init /\ [][Next]_vars

(***************************************************************************)
(* The Kernel object of lines 119-339 on its own: from the state after     *)
(* its construction, any sequence of accesses of its two cached            *)
(* properties and of calls of rename_kernel_files (one per device in       *)
(* an install), while the clock advances and the build system rewrites     *)
(* kernel.release between them.                                            *)
(***************************************************************************)
KernelInit ==
    /\ command = "install"
    /\ nDev = MaxDevices
    /\ bzImage = TRUE
    /\ _built = FALSE
    /\ reqBuilt = "unset"
    /\ pc = "main"
    /\ idx = 1
    /\ exc = NoExc
    /\ exitCode = 0
    /\ mounts = <<>>
    /\ grubDir = ""
    /\ trace = <<>>
    /\ logged = {}
    /\ volDirs = {}
    /\ dotConfig = "cfgA"
    /\ backups = NoBackups
    /\ latest = "absent"
    /\ _kernel_version = None
    /\ _build_datetime = None
    /\ boot \in SUBSET {SystemMap, Vmlinuz, irfs_name(<<"6.6.1">>)}
    /\ written = {}
    /\ firstVersion = None
    /\ lastVersion = None
    /\ redetected = FALSE
    /\ clock = 0
    /\ relFile \in RelFiles
    /\ vmlinux \in VmFiles
    /\ copyFails \in SUBSET Artifacts

\* What the calls on the Kernel object leave alone.
sessionVars == <<command, nDev, bzImage, _built, reqBuilt, pc, idx, exc,
                 exitCode, mounts, grubDir, trace, logged, volDirs>>

\* An access of the kernel_version property (lines 161-196).
GetKernelVersion ==
    /\ access_kernel_version
    /\ UNCHANGED <<_build_datetime, boot, written>>
    /\ UNCHANGED <<sessionVars, cfgVars, envVars>>

\* An access of the build_datetime property (lines 198-202).
GetBuildDatetime ==
    /\ _build_datetime' = build_datetime
    /\ UNCHANGED <<_kernel_version, boot, written, firstVersion, lastVersion,
                   redetected>>
    /\ UNCHANGED <<sessionVars, cfgVars, envVars>>

\* A call of rename_kernel_files (line 307).
CallRenameKernelFiles ==
    /\ rename_kernel_files
    /\ UNCHANGED <<sessionVars, cfgVars, envVars>>

\* Time passes (datetime.now() of lines 201 and 236 reads the clock).
Tick ==
    /\ clock < MaxClock
    /\ clock' = clock + 1
    /\ UNCHANGED <<relFile, vmlinux, copyFails>>
    /\ UNCHANGED <<sessionVars, cfgVars, artVars>>

\* The file read at line 167 is rewritten, created or removed.
ReleaseChanged ==
    /\ relFile' \in RelFiles \ {relFile}
    /\ UNCHANGED <<clock, vmlinux, copyFails>>
    /\ UNCHANGED <<sessionVars, cfgVars, artVars>>

KernelNext ==
    \/ GetKernelVersion
    \/ GetBuildDatetime
    \/ CallRenameKernelFiles
    \/ Tick
    \/ ReleaseChanged

KernelSpec == KernelInit /\ [][KernelNext]_vars

(***************************************************************************)
(* Vocabulary of the properties, all read off the trace of commands.       *)
(***************************************************************************)
Devices == 1..nDev

\* Positions in the trace of the commands op invoked for device d.
Idx(d, o) == {i \in 1..Len(trace) : trace[i].dev = d /\ trace[i].op = o}

Count(d, o) == Cardinality(Idx(d, o))

\* install_kernel has invoked something for device d.
Attempted(d) == \E i \in 1..Len(trace) : trace[i].dev = d

\* Control has left install_kernel for device d (returned or propagated).
Left(d) == Attempted(d) /\ inDevice # d

\* A KeyboardInterrupt was delivered while device d was handled.
Interrupted(d) ==
    \E i \in 1..Len(trace) : trace[i].dev = d /\ trace[i].res = "int"

MountOk(d) == \E i \in Idx(d, "mount") : trace[i].res = "ok"

MountFailed(d) == \E i \in Idx(d, "mount") : trace[i].res \in {"fail", "raise"}

\* The steps of Kernel.install and of the grub.cfg generation on the device.
KernelInstallOps == {"modules_install", "genkernel", "rename",
                     "grub_mkconfig_boot"}

GrubCfgOps == {"makedirs", "grub_mkconfig_dev"}

\* The last command invoked for device d.
LastOf(d) ==
    trace[CHOOSE i \in 1..Len(trace) :
              /\ trace[i].dev = d
              /\ \A j \in (i + 1)..Len(trace) : trace[j].dev # d]

\* C1: once control has left install_kernel for a device whose mount was
\* attempted, whatever the exit path (return, Exception, SystemExit of a
\* failed checked command, KeyboardInterrupt), an umount was invoked after
\* every mount of that device and is the last command invoked for it.
C1_UmountOnEveryExitPath ==
    \A d \in Devices :
        LET M == Idx(d, "mount")
            U == Idx(d, "umount")
        IN  (inDevice # d /\ M # {}) =>
                /\ \A i \in M : \E j \in U : j > i
                /\ LastOf(d).op = "umount"

\* The process was ended by a failed checked command of Kernel.install
\* after a successful mount, and the device's umount came after it.
C1_Witness ==
    /\ pc = "exit"
    /\ exitCode = 2
    /\ \E d \in Devices, i \in 1..Len(trace) :
          /\ MountOk(d)
          /\ trace[i] = Ev(d, "modules_install", "fail", 2)
          /\ \E j \in Idx(d, "umount") : j > i

\* C2 (as claimed): in an install session that was not refused and not
\* interrupted, when the process ends every configured device has received
\* an installation attempt, whichever step failed on an earlier device.
C2_AllDevicesAttempted ==
    (/\ pc = "exit"
     /\ reqBuilt = "yes"
     /\ bzImage
     /\ \A d \in Devices : ~Interrupted(d))
        => \A d \in Devices : Attempted(d)

\* C3: the install steps and the grub.cfg generation of a device only run
\* after that device's mount succeeded; when the mount fails none of them
\* runs for the device, the failure is logged, and install_kernel returns
\* to the loop, which goes on to the next device.
C3_MountFailureSkipsInstall ==
    /\ \A i \in 1..Len(trace) :
          trace[i].op \in KernelInstallOps \cup GrubCfgOps =>
              \E j \in 1..(i - 1) : trace[j] = Ev(trace[i].dev, "mount", "ok", 0)
    /\ \A d \in Devices :
        MountFailed(d) =>
              /\ \A i \in 1..Len(trace) :
                    trace[i].dev = d =>
                        trace[i].op \notin KernelInstallOps \cup GrubCfgOps
              /\ (inDevice # d \/ pc = "ik_finally") =>
                     <<d, "install_error">> \in logged
              /\ (Left(d) /\ ~Interrupted(d)) => idx > d

\* The mount of the first of two devices failed and the second device has
\* been mounted.
C3_Witness ==
    /\ nDev >= 2
    /\ MountFailed(1)
    /\ <<1, "mount_error">> \in logged
    /\ MountOk(2)

\* C4 (as claimed): once control has left install_kernel for a device, as
\* many umounts as mounts have been invoked for it.
C4_MountCountEqualsUmountCount ==
    \A d \in Devices : Left(d) => Count(d, "umount") = Count(d, "mount")

\* C4 (amended): once control has left install_kernel for a device, umount
\* has been invoked exactly twice for it, and when mount was invoked it was
\* invoked once, with one umount before it and one umount after it.
C4_OneUmountBeforeAndAfterMount ==
    \A d \in Devices :
        LET M == Idx(d, "mount")
            U == Idx(d, "umount")
        IN  Left(d) =>
                /\ Cardinality(U) = 2
                /\ Cardinality(M) <= 1
                /\ \A i \in M :
                      /\ Cardinality({j \in U : j < i}) = 1
                      /\ Cardinality({j \in U : j > i}) = 1

\* install_kernel raised in grub.cfg generation for a mounted device and
\* has returned.
C4_Witness ==
    \E d \in Devices :
        /\ Left(d)
        /\ MountOk(d)
        /\ \E i \in Idx(d, "grub_mkconfig_dev") : trace[i].res = "raise"
        /\ Count(d, "umount") = 2

\* C5: when is_kernel_built() is false at the install request, the process
\* ends with status 1 and the not-built error, and nothing was mounted,
\* unmounted, run or copied; and when Kernel.install itself finds no built
\* kernel, none of its steps runs and the status is 1 unless interrupted.
C5_NotBuiltNoSideEffect ==
    /\ reqBuilt = "no" =>
          /\ pc = "exit"
          /\ exitCode = 1
          /\ <<0, "not_built">> \in logged
          /\ trace = <<>>
          /\ mounts = <<>>
    /\ \A d \in Devices :
          <<d, "not_built">> \in logged =>
              /\ \A i \in 1..Len(trace) :
                    trace[i].dev = d =>
                        trace[i].op \notin KernelInstallOps \cup GrubCfgOps
              /\ (Left(d) /\ ~Interrupted(d)) => (pc = "exit" /\ exitCode = 1)

\* An install was requested with devices configured and no built kernel.
C5_Witness ==
    /\ command = "install"
    /\ nDev >= 1
    /\ reqBuilt = "no"
    /\ pc = "exit"

\* C6: _built is only true after the compile command exited with status
\* 0; when it exits non-zero the process ends with that status, _built is
\* false and the compile command is the last command of the run.
C6_BuiltOnlyAfterCompile ==
    /\ _built => \E i \in 1..Len(trace) :
                     trace[i].op = "make_bzImage" /\ trace[i].res = "ok"
    /\ \A i \in 1..Len(trace) :
          (trace[i].op = "make_bzImage" /\ trace[i].res = "fail") =>
              /\ pc = "exit"
              /\ exitCode = trace[i].rc
              /\ exitCode # 0
              /\ ~_built
              /\ Len(trace) = i

\* The compile command exited with status 2 and so did the process.
C6_Witness ==
    /\ command = "build"
    /\ pc = "exit"
    /\ exitCode = 2
    /\ trace = <<Ev(0, "make_bzImage", "fail", 2)>>

\* A device was installed: mounted, and its grub.cfg generated.
Installed(d) ==
    /\ MountOk(d)
    /\ \E i \in Idx(d, "grub_mkconfig_dev") : trace[i].res = "ok"

\* C7 (as claimed): an install session ends with status 0 only if every
\* device was installed successfully.
C7_ExitZeroOnlyIfAllInstalled ==
    (pc = "exit" /\ command = "install" /\ exitCode = 0)
        => \A d \in Devices : Installed(d)

C9_BothBootloadersAttempted ==
    \A d \in Devices :
        (Left(d) /\ Installed(d)) =>
            /\ Count(d, "grub_install_bios") > 0
            /\ Count(d, "grub_install_uefi") > 0

\* C10 (as claimed): the artifact install step runs at most once per run.
C10_InstallAtMostOncePerRun ==
    Cardinality({i \in 1..Len(trace) : trace[i].op = "modules_install"}) <= 1

\* C10 (amended): the artifact install step runs at most once per device,
\* and it runs for every device whose mount succeeded and whose
\* install_kernel got past Kernel.install's built test, whatever was
\* installed for earlier devices.
C10_InstallOncePerMountedDevice ==
    \A d \in Devices :
        /\ LET K == {i \in 1..Len(trace) :
                        trace[i].dev = d /\ trace[i].op \in KernelInstallOps}
           IN  \A i, j \in K : trace[i].op = trace[j].op => i = j
        /\ (/\ MountOk(d)
            /\ Left(d)
            /\ ~Interrupted(d)
            /\ <<d, "not_built">> \notin logged) =>
               Count(d, "modules_install") = 1

\* The install steps have run to their end for two devices.
C10_Witness ==
    /\ nDev >= 2
    /\ \A d \in {1, 2} :
          \E i \in Idx(d, "grub_mkconfig_boot") : trace[i].res = "ok"

\* The timestamp a versioned artifact name carries.
StampOf(n) ==
    IF n[Len(n)] = ".img" THEN <<n[Len(n) - 1]>> ELSE <<n[Len(n)]>>

\* C11: once resolved the build timestamp never changes, and every
\* versioned file this process has written carries it, whatever the time
\* of the copy.
C11_OneTimestampPerRun ==
    /\ [](\A w \in written : StampOf(w.name) = _build_datetime)
    /\ [][~Falsy(_build_datetime) => _build_datetime' = _build_datetime]_vars

\* Two artifacts were copied in different seconds.
C11_Witness ==
    \E v, w \in written : strftime(v.at) # strftime(w.at)

\* C12 (as claimed): every access of kernel_version after the first returns
\* what the first returned, and detection runs once.
C12_VersionResolvedOnce ==
    firstVersion # None => (lastVersion = firstVersion /\ ~redetected)

\* What kernel.release yields: its stripped content, unless it is missing,
\* unreadable or blank.
PrimaryYields ==
    relFile.exists /\ relFile.readable /\ strip(relFile.content) # <<>>

\* What the binary's banner yields: the third word of its first line.
BannerYields ==
    vmlinux.exists /\ vmlinux.rc = 0 /\ Len(vmlinux.words) >= 3

\* C13 (as claimed): an access that resolves the version returns the
\* release string when the release file yields one, else the version of
\* the binary's banner when there is one, else "unknown", and never "".
C13_VersionNeverEmpty ==
    [][((GetKernelVersion \/ CallRenameKernelFiles) /\ Falsy(_kernel_version))
          => /\ lastVersion' # <<>>
             /\ lastVersion' = IF PrimaryYields THEN strip(relFile.content)
                               ELSE IF BannerYields THEN <<vmlinux.words[3]>>
                               ELSE unknown]_vars

\* C14 (as claimed): a compile command run while .config exists is
\* preceded in the same run by a backup attempt of .config.
C14_BackupBeforeCompile ==
    \A i \in 1..Len(trace) :
        (trace[i].op = "make_bzImage" /\ dotConfig # "absent") =>
            \E j \in 1..(i - 1) :
                trace[j].op = "backup_config" /\ trace[j].res # "skip"

\* C14 (amended): it is the configuration command that is preceded by the
\* backup: make nconfig is the second step of its run, after a finished
\* backup_config that attempted the copy exactly when .config existed; a
\* run with the compile command makes no backup.
C14_BackupBeforeConfigure ==
    /\ \A i \in 1..Len(trace) :
          trace[i].op = "nconfig" =>
              /\ i = 2
              /\ trace[1].op = "backup_config"
              /\ trace[1].res \in {"ok", "fail", "skip"}
    /\ pc = "c_nconfig" =>
          /\ Len(trace) = 1
          /\ trace[1].op = "backup_config"
          /\ (trace[1].res = "skip") <=> (dotConfig = "absent")
    /\ (\E i \in 1..Len(trace) : trace[i].op = "make_bzImage") =>
          \A j \in 1..Len(trace) : trace[j].op # "backup_config"

\* make nconfig was started after .config had been backed up.
C14_Witness ==
    /\ Len(trace) >= 2
    /\ trace[1] = Ev(0, "backup_config", "ok", 0)
    /\ trace[2].op = "nconfig"
    /\ strftime(clock) \in DOMAIN backups

\* C15 (as claimed): no step removes a timestamped backup or changes its
\* content.
C15_BackupsAppendOnly ==
    [][\A n \in DOMAIN backups :
          n \in DOMAIN backups' /\ backups'[n] = backups[n]]_vars

\* C16 (as claimed): when make nconfig exits with a non-zero status, the
\* process exits with that status.
C16_ConfigureExitCode ==
    \A i \in 1..Len(trace) :
        (trace[i].op = "nconfig" /\ trace[i].res = "fail" /\ pc = "exit")
            => exitCode = trace[i].rc

\* C17: once a KeyboardInterrupt was delivered during a step of configure,
\* build or install, only the umount in finally is left to run, and the
\* process ends with status 130 and the interruption logged.
C17_InterruptExits130 ==
    (\E i \in 1..Len(trace) : trace[i].res = "int") =>
        /\ pc \in {"ik_finally", "exit"}
        /\ pc = "exit" => (exitCode = 130 /\ <<0, "interrupted">> \in logged)

\* The initramfs generation of a mounted device was interrupted, the
\* device's umount ran, and the process has ended.
C17_Witness ==
    /\ pc = "exit"
    /\ \E i \in 1..(Len(trace) - 1) :
          /\ trace[i].op = "genkernel"
          /\ trace[i].res = "int"
          /\ trace[i + 1].op = "umount"
          /\ trace[i + 1].dev = trace[i].dev

\* A name's last part is an extension.
HasExt(n) == n[Len(n)] \in {".map", ".img"}

\* The suffix put right before the extension, or at the end without one.
InsertBeforeExt(n, suffix) ==
    IF HasExt(n)
    THEN SubSeq(n, 1, Len(n) - 1) \o suffix \o <<n[Len(n)]>>
    ELSE n \o suffix

\* C18 (as claimed): every copy made by rename_kernel_files is named by
\* putting -<v>-<t> before the extension of System.map, at the end of
\* vmlinuz, and -<t> before the extension of initramfs-<v>.img.
C18_SuffixBeforeExtension ==
    [][\A w \in written' \ written :
          w.name = CASE w.art = "initramfs" ->
                          InsertBeforeExt(irfs_name(kernel_version),
                                          <<"-">> \o build_datetime)
                     [] OTHER ->
                          InsertBeforeExt(
                              IF w.art = "vmlinuz" THEN Vmlinuz ELSE SystemMap,
                              <<"-">> \o kernel_version \o <<"-">> \o build_datetime)
      ]_vars

\* C18 (amended): -<v>-<t> is put at the end of the whole name of both
\* System.map and vmlinuz, after the extension of System.map, and -<t>
\* right before the extension of initramfs-<v>.img.
C18_SuffixAppended ==
    [][\A w \in written' \ written :
          w.name = CASE w.art = "initramfs" ->
                          InsertBeforeExt(irfs_name(kernel_version),
                                          <<"-">> \o build_datetime)
                     [] OTHER ->
                          (IF w.art = "vmlinuz" THEN Vmlinuz ELSE SystemMap)
                              \o <<"-">> \o kernel_version
                              \o <<"-">> \o build_datetime
      ]_vars

\* All three artifacts have been copied for version 6.6.1.
C18_Witness ==
    /\ lastVersion = <<"6.6.1">>
    /\ \A a \in Artifacts : \E w \in written : w.art = a

\* The step of Kernel.install that comes right before each of its steps.
StepBefore ==
    [modules_install |-> "ls", genkernel |-> "modules_install",
     rename |-> "genkernel", grub_mkconfig_boot |-> "rename"]

\* C19: every step of Kernel.install is started right after the step
\* before it has finished with success for the same device, in the order
\* modules install, initramfs generation, renaming, grub.cfg generation;
\* after a checked command of install() that failed nothing but the
\* umount in finally is run.
C19_InstallStepOrder ==
    \A i \in 1..Len(trace) :
        trace[i].op \in KernelInstallOps =>
            /\ i > 1
            /\ trace[i - 1] = Ev(trace[i].dev, StepBefore[trace[i].op], "ok", 0)
            /\ trace[i].res \in {"fail", "raise"} =>
                  \A j \in (i + 1)..Len(trace) : trace[j].op = "umount"

\* The initramfs generation failed after the modules were installed, and
\* the process has ended with its status.
C19_Witness ==
    /\ pc = "exit"
    /\ exitCode = 2
    /\ \E i \in 2..Len(trace) :
          /\ trace[i - 1].op = "modules_install"
          /\ trace[i] = Ev(trace[i].dev, "genkernel", "fail", 2)

\* The place of a directory in the priority list of find_grub_path.
Rank(p) == CHOOSE i \in 1..Len(possible_paths) : possible_paths[i] = p

\* C20: the directory chosen for grub.cfg is the one of the directories
\* found on the volume that comes first in the list grub, boot/grub,
\* grub2, boot/grub2, and when none is found it is grub; grub-mkconfig is
\* then run for the device only right after that directory was created.
C20_FirstExistingGrubDir ==
    grubDir # "" =>
        /\ volDirs # {} =>
              /\ grubDir \in volDirs
              /\ \A p \in volDirs : Rank(grubDir) <= Rank(p)
        /\ volDirs = {} =>
              /\ grubDir = "grub"
              /\ LET n == Len(trace)
                     made(i) == i >= 1 /\ trace[i] = Ev(idx, "makedirs", "ok", 0)
                 IN  /\ pc = "ik_mkconfig" => made(n)
                     /\ (n >= 1 /\ trace[n].op = "grub_mkconfig_dev")
                            => made(n - 1)

\* grub.cfg is about to be generated in boot/grub, found before grub2,
\* after it was generated in the created default directory of another
\* device.
C20_Witness ==
    /\ pc = "ik_mkconfig"
    /\ volDirs = {"boot/grub", "grub2", "boot/grub2"}
    /\ grubDir = "boot/grub"
    /\ \E i \in 2..Len(trace) :
          /\ trace[i].op = "grub_mkconfig_dev"
          /\ trace[i - 1].op = "makedirs"

\* C21: when rename_kernel_files has returned, every artifact that was in
\* the boot directory and whose copy did not fail has its versioned copy,
\* every artifact that was missing or whose copy failed has none, and
\* install() goes on with grub-mkconfig: nothing was raised.
C21_PartialArtifactsTolerated ==
    \A i \in 1..Len(trace) :
        (trace[i].op = "rename" /\ trace[i].res = "ok") =>
            /\ \A c \in Copies(_kernel_version, _build_datetime) :
                  IF c[2] \in boot /\ c[1] \notin copyFails
                  THEN /\ c[3] \in boot
                       /\ \E w \in written : w.art = c[1] /\ w.name = c[3]
                  ELSE /\ c[3] \notin boot
                       /\ \A w \in written : w.art # c[1]
            /\ IF i = Len(trace)
               THEN pc = "k_grub" /\ exc = NoExc
               ELSE trace[i + 1].dev = trace[i].dev
                    /\ trace[i + 1].op = "grub_mkconfig_boot"

\* vmlinuz was missing and the copy of System.map failed: the initramfs
\* alone was copied and install() went on to grub-mkconfig.
C21_Witness ==
    /\ Vmlinuz \notin boot
    /\ SystemMap \in boot
    /\ copyFails = {"System.map"}
    /\ {w.art : w \in written} = {"initramfs"}
    /\ \E i \in 1..Len(trace) : trace[i].op = "grub_mkconfig_boot"

====
